---- MODULE Spec2Model ----
(***************************************************************************)
(* nasdaq_vwap.py: the scan loop of parse_file over a length-prefixed      *)
(* ITCH 5.0 tape, with the module-level dictionaries it mutates            *)
(* (counter, count, order_id, stock_map, vwap) and what it prints.         *)
(*                                                                         *)
(* Units.  The 6-byte timestamp is nanoseconds; the code multiplies it by  *)
(* 1e-9 before formatting, and the model carries it in whole seconds.      *)
(* Prices are the raw 4-byte integers (ten-thousandths of a dollar): the   *)
(* code's price is raw / 10000.0.  An 8-byte symbol field is carried as    *)
(* the symbol that .decode().strip() yields.                               *)
(***************************************************************************)
EXTENDS Integers, Sequences, FiniteSets, TLC

\* Frames read from the file in one run of the model.
MaxMessages == 3
\* Order reference numbers on the tape are 1..MaxRef.
MaxRef == 2
\* Line 704: a progress line is printed every ProgressEvery messages.
ProgressEvery == 10000000

VARIABLES
    pc,           \* "loop": at the top of while True; "returned": parse_file
                  \* returned after break; otherwise the exception that left it
    atEOF,        \* the file has no byte left to read
    pos,          \* frames read from the file so far
    curr_hour,    \* parse_file's local curr_hour
    counter,      \* counter = defaultdict(int), keyed by message type
    count,        \* count['total']
    order_id,     \* order_id: reference number -> {stock, shares, price}
    stock_map,    \* stock_map: symbol -> {cum_price_vol, vol}
    vwap,         \* vwap: symbol -> [] or a number
    out,          \* what print() has written, in order
    msg,          \* the frame read by the latest iteration (msg_size, msg_data)
    trades,       \* the (stock, price, shares) triples assigned at lines 720-737
    deleted_refs, \* references named by an Order Delete since they were last added
    clean         \* every frame read so far was a complete frame of a known type

vars == <<pc, atEOF, pos, curr_hour, counter, count, order_id, stock_map, vwap,
          out, msg, trades, deleted_refs, clean>>

-----------------------------------------------------------------------------
(* Values *)

\* Python's None, for curr_hour: no two-character prefix is empty.
None == <<>>
\* An empty dict.
EmptyMap == [x \in {} |-> x]
\* vwap[key] = [] is the empty list; a number v is carried as <<v>>.
EmptyList == <<>>

Refs == 1..MaxRef
Stocks == {"AAPL", "MSFT"}
\* 09:30:00 and 10:00:00, in seconds since midnight.
Times == {34200, 36000}
Prices == {1500000, 1510000}

\* d with d[k] set to v (a dict assignment d[k] = v).
Put(d, k, v) == [x \in DOMAIN d \cup {k} |-> IF x = k THEN v ELSE d[x]]

\* defaultdict(int): d[k] += 1.
Incr(d, k) == Put(d, k, (IF k \in DOMAIN d THEN d[k] ELSE 0) + 1)

-----------------------------------------------------------------------------
(* format_time and the [:2] prefix *)

\* format_time(t): divmod twice, then 'HH:MM:SS' with each part zero-padded.
format_time(t) ==
    LET m == t \div 60
        s == t % 60
        h == m \div 60
    IN  [h |-> h, m |-> m % 60, s |-> s]

\* str[:2] of a formatted time: the two characters of the zero-padded hour
\* (the hour of a 48-bit nanosecond count is at most 78).
Prefix2(ft) == <<ft.h \div 10, ft.h % 10>>

-----------------------------------------------------------------------------
(* The message parsers *)

\* message_parser's keys.
message_parser ==
    {"S", "R", "H", "Y", "L", "V", "W", "K", "J", "h", "A", "F", "E", "C",
     "X", "D", "U", "P", "B", "Q", "I", "N", "O"}

trade_execution_msgs == {"E", "C", "P", "Q"}
order_msgs == {"A", "F"}
system_event_msg == {"S"}

\* The reads of each parser that raise on a short buffer, in the order the
\* parser makes them: <<"unpack", b>> is struct.unpack on msg_data[a:b]
\* (struct.error unless b bytes are there), <<"index", i + 1>> is msg_data[i]
\* (IndexError unless i + 1 bytes are there).  Slices (.decode(),
\* int.from_bytes) never raise and are not listed.
Reads ==
    [t \in message_parser |->
       CASE t = "S" -> << <<"unpack", 3>>, <<"unpack", 5>> >>
         [] t = "R" -> << <<"unpack", 3>>, <<"unpack", 5>>, <<"unpack", 25>>,
                          <<"unpack", 38>> >>
         [] t = "H" -> << <<"index", 1>>, <<"unpack", 3>>, <<"unpack", 5>>,
                          <<"index", 20>>, <<"index", 21>> >>
         [] t = "Y" -> << <<"index", 1>>, <<"unpack", 3>>, <<"unpack", 5>>,
                          <<"index", 20>> >>
         [] t = "L" -> << <<"index", 1>>, <<"unpack", 3>>, <<"unpack", 5>>,
                          <<"index", 24>>, <<"index", 25>>, <<"index", 26>> >>
         [] t = "V" -> << <<"unpack", 3>>, <<"unpack", 5>>, <<"unpack", 19>>,
                          <<"unpack", 27>>, <<"unpack", 35>> >>
         [] t = "W" -> << <<"unpack", 3>>, <<"unpack", 5>>, <<"index", 12>> >>
         [] t = "K" -> << <<"unpack", 3>>, <<"unpack", 5>>, <<"unpack", 23>>,
                          <<"index", 24>>, <<"unpack", 28>> >>
         [] t = "J" -> << <<"unpack", 3>>, <<"unpack", 5>>, <<"unpack", 23>>,
                          <<"unpack", 27>>, <<"unpack", 31>>, <<"unpack", 35>> >>
         [] t = "h" -> << <<"unpack", 3>>, <<"unpack", 5>>, <<"index", 22>>,
                          <<"index", 23>> >>
         [] t = "A" -> << <<"index", 1>>, <<"unpack", 3>>, <<"unpack", 5>>,
                          <<"unpack", 19>>, <<"index", 20>>, <<"unpack", 24>>,
                          <<"unpack", 36>> >>
         [] t = "F" -> << <<"index", 1>>, <<"unpack", 3>>, <<"unpack", 5>>,
                          <<"unpack", 19>>, <<"index", 20>>, <<"unpack", 24>>,
                          <<"unpack", 36>> >>
         [] t = "E" -> << <<"index", 1>>, <<"unpack", 3>>, <<"unpack", 5>>,
                          <<"unpack", 19>>, <<"unpack", 23>>, <<"unpack", 31>> >>
         [] t = "C" -> << <<"index", 1>>, <<"unpack", 3>>, <<"unpack", 5>>,
                          <<"unpack", 19>>, <<"unpack", 23>>, <<"unpack", 31>>,
                          <<"index", 32>>, <<"unpack", 36>> >>
         [] t = "X" -> << <<"index", 1>>, <<"unpack", 3>>, <<"unpack", 5>>,
                          <<"unpack", 19>>, <<"unpack", 23>> >>
         [] t = "D" -> << <<"index", 1>>, <<"unpack", 3>>, <<"unpack", 5>>,
                          <<"unpack", 19>> >>
         [] t = "U" -> << <<"index", 1>>, <<"unpack", 3>>, <<"unpack", 5>>,
                          <<"unpack", 19>>, <<"unpack", 27>>, <<"unpack", 31>>,
                          <<"unpack", 35>> >>
         [] t = "P" -> << <<"index", 1>>, <<"unpack", 3>>, <<"unpack", 5>>,
                          <<"unpack", 19>>, <<"index", 20>>, <<"unpack", 24>>,
                          <<"unpack", 36>>, <<"unpack", 44>> >>
         [] t = "B" -> << <<"index", 1>>, <<"unpack", 3>>, <<"unpack", 5>>,
                          <<"unpack", 19>> >>
         [] t = "Q" -> << <<"index", 1>>, <<"unpack", 3>>, <<"unpack", 5>>,
                          <<"unpack", 19>>, <<"unpack", 31>>, <<"unpack", 39>>,
                          <<"index", 40>> >>
         [] t = "I" -> << <<"index", 1>>, <<"unpack", 3>>, <<"unpack", 5>>,
                          <<"unpack", 19>>, <<"unpack", 27>>, <<"index", 28>>,
                          <<"unpack", 40>>, <<"unpack", 44>>, <<"unpack", 48>>,
                          <<"index", 49>>, <<"index", 50>> >>
         [] t = "N" -> << <<"unpack", 3>>, <<"unpack", 5>>, <<"index", 20>> >>
         [] t = "O" -> << <<"unpack", 3>>, <<"unpack", 5>>, <<"index", 20>>,
                          <<"unpack", 24>>, <<"unpack", 28>>, <<"unpack", 32>>,
                          <<"unpack", 40>>, <<"unpack", 44>>, <<"unpack", 48>> >>]

\* The end of the last field each parser reads (slices included): the length
\* of a complete payload of the type.
FullLen ==
    [t \in message_parser |->
       CASE t \in {"S", "W"} -> 12
         [] t = "R" -> 39
         [] t = "H" -> 25
         [] t \in {"Y", "N"} -> 20
         [] t = "L" -> 26
         [] t \in {"V", "J", "U"} -> 35
         [] t = "K" -> 28
         [] t \in {"h", "X"} -> 23
         [] t \in {"A", "C"} -> 36
         [] t \in {"F", "Q"} -> 40
         [] t = "E" -> 31
         [] t \in {"D", "B"} -> 19
         [] t = "P" -> 44
         [] t = "I" -> 50
         [] t = "O" -> 48]

\* The exception the parser of type t raises on a buffer of n bytes, or
\* "none": that of its first read the buffer is too short for.
ParserError(t, n) ==
    LET short == {i \in DOMAIN Reads[t] : n < Reads[t][i][2]}
        first == CHOOSE i \in short : \A j \in short : i <= j
    IN  IF short = {} THEN "none"
        ELSE IF Reads[t][first][1] = "unpack" THEN "StructError"
        ELSE "IndexError"

\* Lines 696-697 on the bytes read: chr(msg_data[0]) raises IndexError on an
\* empty buffer, message_parser[msg_type] raises KeyError on an unknown type,
\* and then the parser runs.
DispatchError(f) ==
    IF f.avail = 0 THEN "IndexError"
    ELSE IF f.type \notin message_parser THEN "KeyError"
    ELSE ParserError(f.type, f.avail)

\* Whether the parsed dict has the key 'Timestamp': the System Event and
\* Stock Directory parsers name it 'timestamp'.
HasTimestampKey(t) == t \notin {"S", "R"}

\* parsed_message['Timestamp'][:2].
TimestampPrefix(f) == Prefix2(format_time(f.ts))

\* parsed_message['event_code'] = msg_data[11:12].decode(): empty when the
\* buffer ends before byte 11.
event_code(f) == IF f.avail >= 12 THEN f.ev ELSE ""

-----------------------------------------------------------------------------
(* The tape *)

\* A frame as file.read hands it over: the declared msg_size, the number of
\* payload bytes that were there (avail < size only at the end of the file),
\* and the field values a complete payload carries.
Frame(t, size, avail, ts, ev, ref, newref, shares, stock, price) ==
    [type |-> t, size |-> size, avail |-> avail, ts |-> ts, ev |-> ev,
     ref |-> ref, newref |-> newref, shares |-> shares, stock |-> stock,
     price |-> price]

\* A complete frame of a known type.
Full(t, ts, ev, ref, newref, shares, stock, price) ==
    Frame(t, FullLen[t], FullLen[t], ts, ev, ref, newref, shares, stock, price)

FullFrames ==
    {Full("S", ts, ev, 0, 0, 0, "", 0) : ts \in Times, ev \in {"M", "O"}}
    \cup {Full(t, ts, "", 0, 0, 0, "", 0) : t \in {"W"}, ts \in Times}
    \cup {Full(t, 36000, "", 0, 0, 0, "", 0) : t \in {"R", "B"}}
    \cup {Full("A", 34200, "", r, 0, 100, s, p) :
             r \in Refs, s \in Stocks, p \in Prices}
    \cup {Full("F", 34200, "", r, 0, 100, "AAPL", 1500000) : r \in Refs}
    \cup {Full("E", ts, "", r, 0, 50, "", 0) : r \in Refs, ts \in Times}
    \cup {Full("C", 34200, "", r, 0, 50, "", 1510000) : r \in Refs}
    \cup {Full("X", 34200, "", r, 0, 50, "", 0) : r \in Refs}
    \cup {Full("D", 34200, "", r, 0, 0, "", 0) : r \in Refs}
    \cup {Full("U", 34200, "", r, MaxRef + 1 - r, 100, "", 1510000) : r \in Refs}
    \cup {Full("P", ts, "", 1, 0, n, s, 1510000) :
             ts \in Times, n \in {0, 50}, s \in Stocks}
    \cup {Full("Q", 34200, "", 0, 0, 50, s, 1510000) : s \in Stocks}

\* Frames whose declared size is below the length of the type's layout.
ShortFrames ==
    {Frame("S", 5, 5, 34200, "M", 0, 0, 0, "", 0),
     Frame("A", 35, 35, 34200, "", 1, 0, 100, "AAPL", 1500000),
     Frame("F", 36, 36, 34200, "", 1, 0, 100, "AAPL", 1500000)}

\* Frames the file ends in the middle of.
TruncatedFrames ==
    {Frame("S", 12, 5, 34200, "M", 0, 0, 0, "", 0),
     Frame("A", 36, 35, 34200, "", 1, 0, 100, "AAPL", 1500000),
     Frame("F", 40, 36, 34200, "", 1, 0, 100, "AAPL", 1500000)}

\* A frame of an unknown type, and a frame of declared size 0.
OddFrames ==
    {Frame("Z", 12, 12, 34200, "", 0, 0, 0, "", 0),
     Frame("", 0, 0, 0, "", 0, 0, 0, "", 0)}

Frames == FullFrames \cup ShortFrames \cup TruncatedFrames \cup OddFrames

\* A complete frame of a known type.
WellFormed(f) ==
    /\ f.type \in message_parser
    /\ f.size = FullLen[f.type]
    /\ f.avail = f.size

-----------------------------------------------------------------------------
(* parse_file *)

Init ==
    /\ pc = "loop"
    /\ atEOF = FALSE
    /\ pos = 0
    /\ curr_hour = None
    /\ counter = EmptyMap
    /\ count = 0
    /\ order_id = EmptyMap
    /\ stock_map = EmptyMap
    /\ vwap = EmptyMap
    /\ out = <<>>
    /\ msg = Frame("", 0, 0, 0, "", 0, 0, 0, "", 0)
    /\ trades = <<>>
    /\ deleted_refs = {}
    /\ clean = TRUE

\* Lines 685-687: file.read(2) returns b'' and the loop breaks.
ReadEOF ==
    /\ pc = "loop"
    /\ pc' = "returned"
    /\ atEOF' = TRUE
    /\ UNCHANGED <<pos, curr_hour, counter, count, order_id, stock_map, vwap,
                   out, msg, trades, deleted_refs, clean>>

\* Lines 685-690: file.read(2) returns the file's last byte alone and
\* struct.unpack(">H", ...) raises struct.error.
ReadHalfPrefix ==
    /\ pc = "loop"
    /\ ~atEOF
    /\ pc' = "StructError"
    /\ atEOF' = TRUE
    /\ clean' = FALSE
    /\ UNCHANGED <<pos, curr_hour, counter, count, order_id, stock_map, vwap,
                   out, msg, trades, deleted_refs>>

\* Lines 685-693: a length prefix and the payload bytes that follow it.
ReadFrame(f) ==
    /\ pc = "loop"
    /\ ~atEOF
    /\ pos < MaxMessages
    /\ pos' = pos + 1
    /\ msg' = f
    /\ atEOF' = (f.avail < f.size)
    /\ clean' = (clean /\ WellFormed(f))

\* Lines 702-705: the counters, and the progress line.
Counted(f) ==
    /\ counter' = Incr(counter, f.type)
    /\ count' = count + 1

ProgressLine(n) ==
    IF n % ProgressEvery = 0 THEN <<[kind |-> "progress", total |-> n]>>
    ELSE <<>>

\* Line 709: print('vwap at market close ', vwap).
CloseLine == [kind |-> "close", vwap |-> vwap]

\* Line 761: print('vwap at ', curr_hour, vwap), with the dictionary as the
\* iteration has left it.
HourLine(v) == [kind |-> "hour", hour |-> curr_hour, vwap |-> v]

\* Line 760.
HourChanged(f) ==
    /\ curr_hour # None
    /\ HasTimestampKey(f.type)
    /\ curr_hour # TimestampPrefix(f)

\* Lines 760-762 at the end of an iteration that did not set curr_hour.
HourCheck(f) ==
    IF HourChanged(f)
    THEN /\ out' = out \o ProgressLine(count + 1) \o <<HourLine(vwap)>>
         /\ curr_hour' = TimestampPrefix(f)
    ELSE /\ out' = out \o ProgressLine(count + 1)
         /\ UNCHANGED curr_hour

\* Lines 696-697 raise: the iteration ends in the exception.
DecodeFail(f) ==
    /\ ReadFrame(f)
    /\ DispatchError(f) # "none"
    /\ pc' = DispatchError(f)
    /\ UNCHANGED <<curr_hour, counter, count, order_id, stock_map, vwap, out,
                   trades, deleted_refs>>

\* Lines 707-710, and 760 for an event code other than 'M'.
SystemEvent(f) ==
    /\ ReadFrame(f)
    /\ DispatchError(f) = "none"
    /\ f.type \in system_event_msg
    /\ Counted(f)
    /\ IF event_code(f) = "M"
       THEN out' = out \o ProgressLine(count + 1) \o <<CloseLine>>
       ELSE out' = out \o ProgressLine(count + 1)
    /\ UNCHANGED <<pc, curr_hour, order_id, stock_map, vwap, trades,
                   deleted_refs>>

\* Lines 712-717, then 760-762.
AddOrder(f) ==
    /\ ReadFrame(f)
    /\ DispatchError(f) = "none"
    /\ f.type \in order_msgs
    /\ Counted(f)
    /\ order_id' = Put(order_id, f.ref,
                       [stock |-> f.stock, shares |-> f.shares, price |-> f.price])
    /\ deleted_refs' = deleted_refs \ {f.ref}
    /\ HourCheck(f)
    /\ UNCHANGED <<pc, stock_map, vwap, trades>>

\* Lines 721-724 and 727-730: an E or C whose reference is not in order_id.
OrphanExecution(f) ==
    /\ ReadFrame(f)
    /\ DispatchError(f) = "none"
    /\ f.type \in {"E", "C"}
    /\ f.ref \notin DOMAIN order_id
    /\ Counted(f)
    /\ out' = out \o ProgressLine(count + 1)
    /\ UNCHANGED <<pc, curr_hour, order_id, stock_map, vwap, trades,
                   deleted_refs>>

\* Lines 720-737: stock, price, shares of a trade event.
TradeOf(f) ==
    CASE f.type = "E" -> [stock |-> order_id[f.ref].stock,
                          price |-> order_id[f.ref].price, shares |-> f.shares]
      [] f.type = "C" -> [stock |-> order_id[f.ref].stock,
                          price |-> f.price, shares |-> f.shares]
      [] OTHER -> [stock |-> f.stock, price |-> f.price, shares |-> f.shares]

\* TradeExecution with a Trade (P) message also written into order_id under
\* its order reference number, as the order branch does for A and F.
TradeExecutionSeedsOrders(f) ==
    /\ ReadFrame(f)
    /\ DispatchError(f) = "none"
    /\ f.type \in trade_execution_msgs
    /\ f.type \in {"E", "C"} => f.ref \in DOMAIN order_id
    /\ Counted(f)
    /\ out' = out \o ProgressLine(count + 1)
    /\ LET t == TradeOf(f)
       IN  /\ trades' = Append(trades, t)
           /\ curr_hour' = IF curr_hour = None THEN TimestampPrefix(f)
                           ELSE curr_hour
           /\ IF t.stock \notin DOMAIN stock_map
              THEN /\ stock_map' = Put(stock_map, t.stock,
                                       [cum_price_vol |-> 0, vol |-> 0])
                   /\ vwap' = Put(vwap, t.stock, EmptyList)
              ELSE UNCHANGED <<stock_map, vwap>>
    /\ pc' = "NameError"
    /\ order_id' = IF f.type = "P"
                   THEN Put(order_id, f.ref, [stock |-> f.stock,
                                              shares |-> f.shares,
                                              price |-> f.price])
                   ELSE order_id
    /\ UNCHANGED deleted_refs

\* Lines 719-748: the trade is resolved, curr_hour is set if it was None, the
\* stock gets its zeroed entry and vwap[key] = [], and line 748 reads
\* cum_price, a name nothing defines: NameError.  Lines 749-762 do not run.
TradeExecution(f) ==
    /\ ReadFrame(f)
    /\ DispatchError(f) = "none"
    /\ f.type \in trade_execution_msgs
    /\ f.type \in {"E", "C"} => f.ref \in DOMAIN order_id
    /\ Counted(f)
    /\ out' = out \o ProgressLine(count + 1)
    /\ LET t == TradeOf(f)
       IN  /\ trades' = Append(trades, t)
           /\ curr_hour' = IF curr_hour = None THEN TimestampPrefix(f)
                           ELSE curr_hour
           /\ IF t.stock \notin DOMAIN stock_map
              THEN /\ stock_map' = Put(stock_map, t.stock,
                                       [cum_price_vol |-> 0, vol |-> 0])
                   /\ vwap' = Put(vwap, t.stock, EmptyList)
              ELSE UNCHANGED <<stock_map, vwap>>
    /\ pc' = "NameError"
    /\ UNCHANGED <<order_id, deleted_refs>>

\* Every other known type: lines 702-705, then 760-762.
OtherMessage(f) ==
    /\ ReadFrame(f)
    /\ DispatchError(f) = "none"
    /\ f.type \notin system_event_msg \cup order_msgs \cup trade_execution_msgs
    /\ Counted(f)
    /\ deleted_refs' = IF f.type = "D" THEN deleted_refs \cup {f.ref}
                       ELSE deleted_refs
    /\ HourCheck(f)
    /\ UNCHANGED <<pc, order_id, stock_map, vwap, trades>>

\* One iteration of the loop on frame f.
Iteration(f) ==
    \/ DecodeFail(f)
    \/ SystemEvent(f)
    \/ AddOrder(f)
    \/ OrphanExecution(f)
    \/ TradeExecution(f)
    \/ OtherMessage(f)

Next ==
    \/ ReadEOF
    \/ ReadHalfPrefix
    \/ \E f \in Frames : Iteration(f)

Spec == Init /\ [][Next]_vars

-----------------------------------------------------------------------------
(* What the tape's trade events add up to *)

RECURSIVE SumNotional(_, _)
\* The sum of price * shares over the trades of stock s.
SumNotional(ts, s) ==
    IF ts = <<>> THEN 0
    ELSE (IF Head(ts).stock = s THEN Head(ts).price * Head(ts).shares ELSE 0)
         + SumNotional(Tail(ts), s)

RECURSIVE SumShares(_, _)
\* The sum of shares over the trades of stock s.
SumShares(ts, s) ==
    IF ts = <<>> THEN 0
    ELSE (IF Head(ts).stock = s THEN Head(ts).shares ELSE 0)
         + SumShares(Tail(ts), s)

\* a / b to the nearest unit (a price to four decimals).
RoundDiv(a, b) == (2 * a + b) \div (2 * b)

\* cumulative_notional and cumulative_volume of s, zero while s has no entry.
Notional(s) == IF s \in DOMAIN stock_map THEN stock_map[s].cum_price_vol ELSE 0
Volume(s) == IF s \in DOMAIN stock_map THEN stock_map[s].vol ELSE 0

\* How often type t has been counted.
TypeCount(t) == IF t \in DOMAIN counter THEN counter[t] ELSE 0

\* The aggregates are the sums over the trade events read so far.
AggregatesMatchTrades ==
    \A s \in Stocks :
        /\ Notional(s) = SumNotional(trades, s)
        /\ Volume(s) = SumShares(trades, s)

\* The step reads a frame: the frame is msg'.
ReadsFrame == pos' = pos + 1

\* The closing snapshots and the hour-boundary snapshots printed so far.
Closes(o) == SelectSeq(o, LAMBDA e : e.kind = "close")
HourSnaps(o) == SelectSeq(o, LAMBDA e : e.kind = "hour")

-----------------------------------------------------------------------------
(* The claims *)

\* The tape read so far is Add Order (A/F) messages and as many Order
\* Executed (E) messages, every E resolved against an added order.
AddExecutePairsOnly ==
    /\ clean
    /\ pos = count
    /\ DOMAIN counter \subseteq {"A", "F", "E"}
    /\ TypeCount("A") + TypeCount("F") = TypeCount("E")
    /\ Len(trades) = TypeCount("E")

\* C1: on a stream made only of Add Order messages each followed by an Order
\* Executed for the same reference, the VWAP held for every instrument with
\* executions is sum(price_i * shares_i) / sum(shares_i) over its executions.
C1_VwapOfAddExecutePairs ==
    AddExecutePairsOnly =>
        \A s \in Stocks :
            SumShares(trades, s) > 0 =>
                /\ s \in DOMAIN vwap
                /\ vwap[s] = <<RoundDiv(SumNotional(trades, s), SumShares(trades, s))>>

\* C2: after any sequence of messages each instrument's (cumulative_notional,
\* cumulative_volume) is the sum of price * shares and of shares over its trade
\* events so far (E at the order's price, C at execution_price, P at price, Q
\* at cross_price); Add(1, AAPL, 100 @ 150.0000), Executed(1, 50) gives
\* notional 7500.0000 and volume 50.
C2_AggregatesAreSums == AggregatesMatchTrades

\* C3: an Order Executed (E or C) whose reference was added and then removed
\* by an Order Delete is an orphaned execution: it resolves to no trade and no
\* instrument's aggregate or VWAP changes.
C3_ExecuteAfterDeleteIsOrphaned ==
    [][(/\ ReadsFrame
        /\ clean'
        /\ msg'.type \in {"E", "C"}
        /\ msg'.ref \in deleted_refs)
       => (/\ pc' = "loop"
           /\ trades' = trades
           /\ stock_map' = stock_map
           /\ vwap' = vwap)]_vars

\* The frames that carry a timestamp of another hour than curr_hour.
OtherHourFrames ==
    {f \in FullFrames : HasTimestampKey(f.type) /\ TimestampPrefix(f) # curr_hour}

\* C4: when the hour bucket is h, the last message was of hour h and a message
\* of another hour follows, exactly one hour-boundary snapshot is emitted for
\* it, holding the VWAPs as the hour-h message left them.
C4_OneSnapshotPerHourChange ==
    (/\ curr_hour # None
     /\ HasTimestampKey(msg.type)
     /\ TimestampPrefix(msg) = curr_hour
     /\ ~atEOF
     /\ pos < MaxMessages)
    => \A f \in OtherHourFrames :
           ENABLED (/\ Iteration(f)
                    /\ HourSnaps(out') = Append(HourSnaps(out), HourLine(vwap)))

\* The System Event frames with event_code 'M'.
CloseFrames == {f \in FullFrames : f.type = "S" /\ f.ev = "M"}

\* C5: a System Event with event_code 'M' that follows on the tape triggers
\* exactly one closing snapshot whatever the hour-boundary state is: bucket
\* unset, equal to the message's hour, or different from it.
C5_CloseSnapshotAlways ==
    (clean /\ ~atEOF /\ pos < MaxMessages)
    => \A f \in CloseFrames :
           ENABLED (/\ Iteration(f)
                    /\ Len(Closes(out')) = Len(Closes(out)) + 1)

\* C6: the VWAP map that snapshots emit holds only instruments whose
\* cumulative volume is nonzero, each with a number, never a placeholder.
C6_NoVwapWithoutVolume ==
    \A s \in DOMAIN vwap :
        /\ Volume(s) # 0
        /\ vwap[s] # EmptyList

\* C7: on a stream of well-formed frames the scan is never aborted (it is in
\* the loop or has returned at end of stream) and the aggregates reflect every
\* trade event read.
C7_TradesNeverAbort ==
    clean => (pc \in {"loop", "returned"} /\ AggregatesMatchTrades)

\* C8: a frame whose first byte is no known type code does not abort the
\* scan, and leaves the order table, the aggregates and the hour bucket as
\* they were.
C8_UnknownTypeSkipped ==
    [][(/\ ReadsFrame
        /\ msg'.avail > 0
        /\ msg'.type \notin message_parser)
       => (/\ pc' = "loop"
           /\ UNCHANGED <<order_id, stock_map, vwap, curr_hour>>)]_vars

\* C9: when fewer payload bytes remain than the length prefix declares, the
\* scan fails and the partial payload changes no state: nothing is counted,
\* added to the order table or the aggregates, or printed.
C9_TruncatedFrameIsFatal ==
    [][(ReadsFrame /\ msg'.avail < msg'.size)
       => (/\ pc' \notin {"loop", "returned"}
           /\ UNCHANGED <<counter, count, order_id, stock_map, vwap, curr_hour,
                          out>>)]_vars

\* C10: a frame of a known type whose payload is shorter than the type's
\* layout is rejected as a whole: the scan goes on with the next frame, and
\* the order table, the aggregates and the hour bucket are as they were.
C10_ShortFrameRejected ==
    [][(/\ ReadsFrame
        /\ msg'.type \in message_parser
        /\ msg'.avail = msg'.size
        /\ msg'.size < FullLen[msg'.type])
       => (/\ pc' = "loop"
           /\ UNCHANGED <<order_id, stock_map, vwap, curr_hour>>)]_vars

\* C11: the order table holds a record for a reference only while the order
\* is open: a reference removed by an Order Delete since it was last added has
\* no record.
C11_DeletedOrdersAreRemoved ==
    clean => \A r \in deleted_refs : r \notin DOMAIN order_id

\* C12: after an Order Replace (old_ref, new_ref, shares, price) for a tracked
\* old_ref, old_ref is no longer tracked and new_ref is tracked with old_ref's
\* instrument and the message's shares and price.
C12_ReplaceMovesTheOrder ==
    [][(/\ ReadsFrame
        /\ clean'
        /\ msg'.type = "U"
        /\ msg'.ref \in DOMAIN order_id)
       => (/\ msg'.ref \notin DOMAIN order_id'
           /\ msg'.newref \in DOMAIN order_id'
           /\ order_id'[msg'.newref] = [stock |-> order_id[msg'.ref].stock,
                                        shares |-> msg'.shares,
                                        price |-> msg'.price])]_vars

\* C13: an Order Executed, Order Executed With Price or Order Cancel for
\* fewer shares than a tracked order has left decrements the order's
\* remaining shares by the message's share count.
C13_SharesAreDecremented ==
    [][(/\ ReadsFrame
        /\ clean'
        /\ msg'.type \in {"E", "C", "X"}
        /\ msg'.ref \in DOMAIN order_id
        /\ msg'.shares < order_id[msg'.ref].shares)
       => (/\ msg'.ref \in DOMAIN order_id'
           /\ order_id'[msg'.ref].shares
                = order_id[msg'.ref].shares - msg'.shares)]_vars

\* The complete frames, of any record type, stamped with another hour than
\* curr_hour.
LaterHourFrames == {f \in FullFrames : TimestampPrefix(f) # curr_hour}

\* C14: once the hour bucket is set, every later message of any record type
\* whose hour differs from the bucket causes an hour-boundary snapshot and
\* sets the bucket to the message's hour.
C14_EveryRecordTypeMovesTheBucket ==
    (curr_hour # None /\ ~atEOF /\ pos < MaxMessages)
    => \A f \in LaterHourFrames :
           ENABLED (/\ Iteration(f)
                    /\ Len(HourSnaps(out')) = Len(HourSnaps(out)) + 1
                    /\ curr_hour' = TimestampPrefix(f))

\* C15: a Trade (P) or Cross Trade (Q) message leaves the order table as it
\* was: no record is added, altered or removed, also when the P message's
\* order reference number is a tracked one.
C15_TradesLeaveOrderTable ==
    [][(ReadsFrame /\ msg'.type \in {"P", "Q"}) => order_id' = order_id]_vars

\* A Trade message naming a tracked reference has been resolved as a trade.
C15_Witness ==
    /\ msg.type = "P"
    /\ msg.ref \in DOMAIN order_id
    /\ trades # <<>>
    /\ trades[Len(trades)] = [stock |-> msg.stock, price |-> msg.price,
                              shares |-> msg.shares]

\* C16: after a System Event with event_code 'M' the trade events that follow
\* still update the aggregates: the scan is not stopped and every instrument's
\* aggregate is the sum over its trade events, those after the close included.
C16_AggregationGoesOnAfterClose ==
    (clean /\ Len(Closes(out)) > 0)
    => (pc \in {"loop", "returned"} /\ AggregatesMatchTrades)

====
